---- MODULE Spec2Model ----
(***************************************************************************)
(* Model of heredity.py: exact inference by enumeration over a pedigree.   *)
(*                                                                         *)
(* Numbers.  The program computes with reals (Python floats); the model    *)
(* computes with exact fixed-point values.  Table entries are percentages  *)
(* (0.96 -> 96).  A person's gene factor is held at scale 10^4, the trait  *)
(* factor at scale 10^2, so a joint probability over n people is a natural *)
(* number at scale 10^(6n).  Such numbers exceed 32 bits, so they are held *)
(* as little-endian sequences of Limbs digits in base Base.  A cell of a   *)
(* distribution is a fraction [num, den] of two such numbers.              *)
(*                                                                         *)
(* Identifiers are 1..n; 0 stands for None in the mother/father fields.    *)
(* The observed trait is "True", "False" or "None".                        *)
(***************************************************************************)
EXTENDS Integers, Sequences, FiniteSets, TLC

MaxPeople == 3

Base == 100 * 1000
Limbs == (6 * MaxPeople) \div 5 + 2

None == 0

(* ---------------- exact arithmetic on multi-limb naturals -------------- *)

RECURSIVE Carry(_, _, _)
Carry(raw, i, c) ==
    IF i > Limbs THEN <<>>
    ELSE LET v == raw[i] + c
         IN  <<v % Base>> \o Carry(raw, i + 1, v \div Base)

Zero == Carry([i \in 1..Limbs |-> 0], 1, 0)

FromInt(x) == Carry([i \in 1..Limbs |-> IF i = 1 THEN x ELSE 0], 1, 0)

Add(a, b) == Carry([i \in 1..Limbs |-> a[i] + b[i]], 1, 0)

MulSmall(a, k) == Carry([i \in 1..Limbs |-> a[i] * k], 1, 0)

RECURSIVE LeqFrom(_, _, _)
LeqFrom(a, b, i) ==
    IF i = 0 THEN TRUE
    ELSE IF a[i] # b[i] THEN a[i] < b[i]
    ELSE LeqFrom(a, b, i - 1)

Leq(a, b) == LeqFrom(a, b, Limbs)

RECURSIVE Pow(_, _)
Pow(k, e) == IF e = 0 THEN FromInt(1) ELSE MulSmall(Pow(k, e - 1), k)

(* 1.0 at the scale of a joint probability over the people of s *)
One(s) == Pow(100, 3 * Cardinality(s))

(* ---------------- the probability tables (percent) --------------------- *)

PROBS ==
    [gene     |-> [g \in 0..2 |-> CASE g = 2 -> 1 [] g = 1 -> 3 [] g = 0 -> 96],
     trait    |-> [g \in 0..2 |->
                      CASE g = 2 -> [t \in BOOLEAN |-> IF t THEN 65 ELSE 35]
                        [] g = 1 -> [t \in BOOLEAN |-> IF t THEN 56 ELSE 44]
                        [] g = 0 -> [t \in BOOLEAN |-> IF t THEN 1 ELSE 99]],
     mutation |-> 1]

(* ---------------- powerset: subsets in itertools order ----------------- *)

RECURSIVE SetToList(_)
SetToList(s) ==
    IF s = {} THEN <<>>
    ELSE LET x == CHOOSE y \in s : \A z \in s : y <= z
         IN  <<x>> \o SetToList(s \ {x})

(* combinations that may take the same element again *)
RECURSIVE combinations_with_replacement(_, _)
combinations_with_replacement(l, r) ==
    IF r = 0 THEN << <<>> >>
    ELSE IF Len(l) = 0 THEN <<>>
    ELSE LET with == combinations_with_replacement(l, r - 1)
             without == combinations_with_replacement(Tail(l), r)
         IN  [i \in 1..Len(with) |-> <<Head(l)>> \o with[i]] \o without

RECURSIVE combinations(_, _)
combinations(l, r) ==
    IF r = 0 THEN << <<>> >>
    ELSE IF Len(l) < r THEN <<>>
    ELSE LET with == combinations(Tail(l), r - 1)
             without == combinations(Tail(l), r)
         IN  [i \in 1..Len(with) |-> <<Head(l)>> \o with[i]] \o without

RECURSIVE chain(_, _)
chain(l, r) ==
    IF r > Len(l) THEN <<>>
    ELSE combinations(l, r) \o chain(l, r + 1)

powerset(s) ==
    LET l == SetToList(s)
        c == chain(l, 0)
    IN  [i \in 1..Len(c) |-> {c[i][j] : j \in 1..Len(c[i])}]

(* ---------------- joint_probability ------------------------------------ *)

(* "2 if x in two_genes else 1 if x in one_gene else 0" *)
gene_copies(x, one_gene, two_genes) ==
    IF x \in two_genes THEN 2 ELSE IF x \in one_gene THEN 1 ELSE 0

(* the mutation rate applied on the high side only *)
apply_mutation_high_only(q) ==
    IF q > 50 THEN 100 - PROBS.mutation ELSE q

(* "(1 - m) if q > 0.5 else m", q and the result in percent *)
apply_mutation(q) ==
    IF q > 50 THEN 100 - PROBS.mutation ELSE PROBS.mutation

(* "1 - (g / 2) if g > 0 else 0.99", then the mutation step *)
prob_no_gene_from(g) ==
    apply_mutation(IF g > 0 THEN 100 - 50 * g ELSE 99)

(* "g / 2 if g > 0 else 0.01", then the mutation step *)
prob_gene_from(g) ==
    apply_mutation(IF g > 0 THEN 50 * g ELSE 1)

(* the gene part of person_prob for a person with recorded parents,        *)
(* scale 10^4                                                              *)
inherit_prob(copies, mother_has_gene, father_has_gene) ==
    IF copies = 0
    THEN prob_no_gene_from(mother_has_gene) * prob_no_gene_from(father_has_gene)
    ELSE IF copies = 1
    THEN prob_gene_from(mother_has_gene) * prob_no_gene_from(father_has_gene)
         + prob_gene_from(father_has_gene) * prob_no_gene_from(mother_has_gene)
    ELSE prob_gene_from(mother_has_gene) * prob_gene_from(father_has_gene)

(* the gene part of person_prob, scale 10^4 *)
gene_prob(ppl, person, one_gene, two_genes) ==
    LET copies == gene_copies(person, one_gene, two_genes)
        mother == ppl[person].mother
        father == ppl[person].father
    IN  IF mother = None /\ father = None
        THEN PROBS.gene[copies] * 100
        ELSE inherit_prob(copies,
                          gene_copies(mother, one_gene, two_genes),
                          gene_copies(father, one_gene, two_genes))

(* the trait part of person_prob, scale 10^2 *)
trait_prob(person, one_gene, two_genes, have_trait) ==
    PROBS.trait[gene_copies(person, one_gene, two_genes)][(person \in have_trait)]

RECURSIVE joint_over(_, _, _, _, _, _)
joint_over(todo, ppl, one_gene, two_genes, have_trait, joint_prob) ==
    IF todo = {} THEN joint_prob
    ELSE LET person == CHOOSE x \in todo : \A y \in todo : x <= y
         IN  joint_over(todo \ {person}, ppl, one_gene, two_genes, have_trait,
                 MulSmall(MulSmall(joint_prob,
                                   gene_prob(ppl, person, one_gene, two_genes)),
                          trait_prob(person, one_gene, two_genes, have_trait)))

(* the product taken over all rows but the first *)
joint_probability_skip_first(ppl, one_gene, two_genes, have_trait) ==
    joint_over(DOMAIN ppl \ {CHOOSE x \in DOMAIN ppl : \A y \in DOMAIN ppl : x <= y},
               ppl, one_gene, two_genes, have_trait, FromInt(1))

(* numerator of the joint probability at scale 10^(6n) *)
joint_probability(ppl, one_gene, two_genes, have_trait) ==
    joint_over(DOMAIN ppl, ppl, one_gene, two_genes, have_trait, FromInt(1))

(* ---------------- update and normalize --------------------------------- *)

(* everyone with the gene counted in the one-copy cell *)
update_one_copy_cell(probs, one_gene, two_genes, have_trait, q) ==
    [person \in DOMAIN probs |->
        [gene  |-> [g \in 0..2 |->
                      IF g = (IF person \in one_gene \cup two_genes THEN 1 ELSE 0)
                      THEN [probs[person].gene[g] EXCEPT
                               !.num = Add(probs[person].gene[g].num, q)]
                      ELSE probs[person].gene[g]],
         trait |-> [t \in BOOLEAN |->
                      IF t = (person \in have_trait)
                      THEN [probs[person].trait[t] EXCEPT
                               !.num = Add(probs[person].trait[t].num, q)]
                      ELSE probs[person].trait[t]]]]

update(probs, one_gene, two_genes, have_trait, q) ==
    [person \in DOMAIN probs |->
        [gene  |-> [g \in 0..2 |->
                      IF g = gene_copies(person, one_gene, two_genes)
                      THEN [probs[person].gene[g] EXCEPT
                               !.num = Add(probs[person].gene[g].num, q)]
                      ELSE probs[person].gene[g]],
         trait |-> [t \in BOOLEAN |->
                      IF t = (person \in have_trait)
                      THEN [probs[person].trait[t] EXCEPT
                               !.num = Add(probs[person].trait[t].num, q)]
                      ELSE probs[person].trait[t]]]]

(* the sum without the two-copy cell *)
gene_sum_without_two(dist) == Add(dist[0].num, dist[1].num)

(* sum of the values of a distribution whose cells share a denominator *)
gene_sum(dist) == Add(Add(dist[0].num, dist[1].num), dist[2].num)
trait_sum(dist) == Add(dist[TRUE].num, dist[FALSE].num)

(* cell / sum, where cell and sum have the same denominator *)
Div(cell, sum) == [num |-> cell.num, den |-> sum]

normalize(probs) ==
    [person \in DOMAIN probs |->
        [gene  |-> IF gene_sum(probs[person].gene) # Zero
                   THEN [g \in 0..2 |->
                           Div(probs[person].gene[g], gene_sum(probs[person].gene))]
                   ELSE probs[person].gene,
         trait |-> IF trait_sum(probs[person].trait) # Zero
                   THEN [t \in BOOLEAN |->
                           Div(probs[person].trait[t], trait_sum(probs[person].trait))]
                   ELSE probs[person].trait]]

(* ---------------- main -------------------------------------------------- *)

VARIABLES
    people,         \* the loaded pedigree: name -> [mother, father, trait]
    probabilities,  \* name -> [gene: 0..2 -> cell, trait: BOOLEAN -> cell]
    pc,             \* "have_trait" | "genes" | "done"
    ti, oi, wi,     \* positions of the three nested for loops
    have_trait, one_gene, two_genes, p,   \* loop variables of main
    calls,          \* history: number of joint_probability/update calls
    total,          \* history: sum of all p passed to update
    visited_traits, \* history: trait subsets that passed the evidence check
    trait_passes,   \* history: number of passes of the evidence check
    visited_genes,  \* history: gene assignments visited for this have_trait
    gene_calls,     \* history: number of calls for this have_trait
    gene_factor     \* history: name -> gene part of person_prob, last call

vars == <<people, probabilities, pc, ti, oi, wi, have_trait, one_gene,
          two_genes, p, calls, total, visited_traits, trait_passes,
          visited_genes, gene_calls, gene_factor>>

names == DOMAIN people

TraitValues == {"True", "False", "None"}

Absent == MaxPeople + 1     \* an identifier that names no row of the file

(* load_data's contract: mother and father both blank, or both valid names *)
Resolvable(ppl, person) ==
    \/ ppl[person].mother = None /\ ppl[person].father = None
    \/ ppl[person].mother \in DOMAIN ppl /\ ppl[person].father \in DOMAIN ppl

(* a forest: the two parents are distinct rows listed before the child *)
WellFormed(ppl) ==
    \A person \in DOMAIN ppl :
        /\ Resolvable(ppl, person)
        /\ ppl[person].mother # None =>
              /\ ppl[person].mother # ppl[person].father
              /\ ppl[person].mother < person
              /\ ppl[person].father < person

Malformed(ppl) == \E person \in DOMAIN ppl : ~Resolvable(ppl, person)

MakePeople(par, tr) ==
    [person \in DOMAIN par |->
        [mother |-> par[person][1], father |-> par[person][2],
         trait |-> tr[person]]]

InitData(ppl) ==
    /\ people = ppl
    /\ probabilities =
          [person \in DOMAIN ppl |->
              [gene  |-> [g \in 0..2 |-> [num |-> Zero, den |-> One(DOMAIN ppl)]],
               trait |-> [t \in BOOLEAN |-> [num |-> Zero, den |-> One(DOMAIN ppl)]]]]
    /\ ti = 1 /\ oi = 1 /\ wi = 1
    /\ p = Zero
    /\ calls = 0 /\ total = Zero
    /\ visited_traits = {} /\ trait_passes = 0
    /\ visited_genes = {} /\ gene_calls = 0
    /\ gene_factor = [person \in DOMAIN ppl |-> 0]

(* main before the first iteration of "for have_trait in powerset(names)" *)
InitWith(ppl) ==
    /\ InitData(ppl)
    /\ pc = "have_trait"
    /\ have_trait = {} /\ one_gene = {} /\ two_genes = {}

(* the rows of a couple in a fixed order: one file for each pedigree that  *)
(* differs only in which parent is listed first                            *)
MotherFirst(ppl) ==
    \A person \in DOMAIN ppl :
        ppl[person].mother # None => ppl[person].mother < ppl[person].father

(* main after load_data, for every well-formed file and every evidence *)
Init ==
    \E n \in 1..MaxPeople :
      \E par \in [1..n -> (0..n) \X (0..n)] :
        /\ WellFormed(MakePeople(par, [person \in 1..n |-> "None"]))
        /\ MotherFirst(MakePeople(par, [person \in 1..n |-> "None"]))
        /\ \E tr \in [1..n -> TraitValues] : InitWith(MakePeople(par, tr))

(* only the observations of a present trait are checked *)
fails_evidence_true_only(ppl, ht) ==
    \E person \in DOMAIN ppl :
        ppl[person].trait = "True" /\ person \notin ht

(* the evidence check of main *)
fails_evidence(ppl, ht) ==
    \E person \in DOMAIN ppl :
        /\ ppl[person].trait # "None"
        /\ (ppl[person].trait = "True") # (person \in ht)

(* the gene assignment a pair (one_gene, two_genes) stands for *)
Assignment(og, tg) == [x \in names |-> gene_copies(x, og, tg)]

(* for have_trait in powerset(names): evidence violated -> continue *)
SkipTrait ==
    /\ pc = "have_trait"
    /\ ti <= Len(powerset(names))
    /\ fails_evidence(people, powerset(names)[ti])
    /\ have_trait' = powerset(names)[ti]
    /\ ti' = ti + 1
    /\ UNCHANGED <<people, probabilities, pc, oi, wi, one_gene, two_genes, p,
                   calls, total, visited_traits, trait_passes, visited_genes,
                   gene_calls, gene_factor>>

(* for have_trait in powerset(names): evidence respected -> gene loops *)
EnterTrait ==
    /\ pc = "have_trait"
    /\ ti <= Len(powerset(names))
    /\ ~fails_evidence(people, powerset(names)[ti])
    /\ have_trait' = powerset(names)[ti]
    /\ pc' = "genes"
    /\ oi' = 1 /\ wi' = 1
    /\ visited_traits' = visited_traits \cup {powerset(names)[ti]}
    /\ trait_passes' = trait_passes + 1
    /\ visited_genes' = {}
    /\ gene_calls' = 0
    /\ UNCHANGED <<people, probabilities, ti, one_gene, two_genes, p, calls,
                   total, gene_factor>>

(* one execution of the body of the two inner loops, lines 77-82 *)
Hypothesis ==
    /\ pc = "genes"
    /\ one_gene' = powerset(names)[oi]
    /\ two_genes' = powerset(names \ one_gene')[wi]
    /\ p' = joint_probability(people, one_gene', two_genes', have_trait)
    /\ probabilities' = update(probabilities, one_gene', two_genes', have_trait, p')
    /\ calls' = calls + 1
    /\ total' = Add(total, p')
    /\ visited_genes' = visited_genes \cup {Assignment(one_gene', two_genes')}
    /\ gene_calls' = gene_calls + 1
    /\ gene_factor' = [person \in names |->
                          gene_prob(people, person, one_gene', two_genes')]
    /\ IF wi < Len(powerset(names \ one_gene'))
       THEN wi' = wi + 1 /\ UNCHANGED <<oi, ti, pc>>
       ELSE IF oi < Len(powerset(names))
       THEN oi' = oi + 1 /\ wi' = 1 /\ UNCHANGED <<ti, pc>>
       ELSE ti' = ti + 1 /\ pc' = "have_trait" /\ UNCHANGED <<oi, wi>>
    /\ UNCHANGED <<people, have_trait, visited_traits, trait_passes>>

(* the outer loop is exhausted: normalize(probabilities), line 85 *)
Normalize ==
    /\ pc = "have_trait"
    /\ ti > Len(powerset(names))
    /\ probabilities' = normalize(probabilities)
    /\ pc' = "done"
    /\ UNCHANGED <<people, ti, oi, wi, have_trait, one_gene, two_genes, p,
                   calls, total, visited_traits, trait_passes, visited_genes,
                   gene_calls, gene_factor>>

Next == SkipTrait \/ EnterTrait \/ Hypothesis \/ Normalize

Spec == Init /\ [][Next]_vars

(* ---------------- malformed pedigrees ----------------------------------- *)

(* load_data validates nothing, so main can be given a file in which one   *)
(* row names a parent that is no row of the file, or only one parent       *)
InitMalformed ==
    \E n \in 1..MaxPeople :
      \E bad \in 1..n :
        \E m \in (0..n) \cup {Absent}, f \in (0..n) \cup {Absent} :
          \E tr \in [1..n -> TraitValues] :
            LET par == [person \in 1..n |->
                           IF person = bad THEN <<m, f>> ELSE <<None, None>>]
            IN  /\ Malformed(MakePeople(par, tr))
                /\ InitWith(MakePeople(par, tr))

SpecMalformed == InitMalformed /\ [][Next]_vars

(* ---------------- joint_probability on its own -------------------------- *)

(* any well-formed pedigree and any complete hypothesis *)
InitJoint ==
    \E n \in 1..MaxPeople :
      \E par \in [1..n -> (0..n) \X (0..n)] :
        /\ WellFormed(MakePeople(par, [person \in 1..n |-> "None"]))
        /\ \E og \in SUBSET (1..n) :
             \E tg \in SUBSET ((1..n) \ og) :
               \E ht \in SUBSET (1..n) :
                 /\ InitData(MakePeople(par, [person \in 1..n |-> "None"]))
                 /\ pc = "call"
                 /\ one_gene = og /\ two_genes = tg /\ have_trait = ht

JointCall ==
    /\ pc = "call"
    /\ p' = joint_probability(people, one_gene, two_genes, have_trait)
    /\ gene_factor' = [person \in names |->
                          gene_prob(people, person, one_gene, two_genes)]
    /\ calls' = calls + 1
    /\ pc' = "returned"
    /\ UNCHANGED <<people, probabilities, ti, oi, wi, have_trait, one_gene,
                   two_genes, total, visited_traits, trait_passes,
                   visited_genes, gene_calls>>

NextJoint == JointCall

SpecJoint == InitJoint /\ [][NextJoint]_vars

(* ---------------- properties -------------------------------------------- *)

TypeOK ==
    /\ pc \in {"have_trait", "genes", "done", "call", "returned"}
    /\ one_gene \subseteq names /\ two_genes \subseteq names
    /\ have_trait \subseteq names

HasParents(person) ==
    ~(people[person].mother = None /\ people[person].father = None)

Copies(x) == IF x \in two_genes THEN 2 ELSE IF x \in one_gene THEN 1 ELSE 0

RECURSIVE SumNum(_, _)
SumNum(dist, keys) ==
    IF keys = {} THEN Zero
    ELSE LET k == CHOOSE x \in keys : TRUE
         IN  Add(dist[k].num, SumNum(dist, keys \ {k}))

(* an observed trait value is respected by the trait set ht *)
Consistent(ht) ==
    \A person \in names :
        /\ people[person].trait = "True" => person \in ht
        /\ people[person].trait = "False" => person \notin ht

(* 3^n *)
RECURSIVE Pow3(_)
Pow3(n) == IF n = 0 THEN 1 ELSE 3 * Pow3(n - 1)

(* C1: for a child with recorded parents, the probability that a parent    *)
(* with gene count g passes the gene is base*(1-m) + (1-base)*m with       *)
(* base = g/2 (0.01, 0.5, 0.99), and the probability that the parent does  *)
(* not pass it is one minus that; values at scale 10^4.                    *)
Transmit(g) ==
    (50 * g) * (100 - PROBS.mutation) + (100 - 50 * g) * PROBS.mutation

C1_Transmission ==
    pc = "returned" =>
        \A person \in names : HasParents(person) =>
            \A parent \in {people[person].mother, people[person].father} :
                /\ 100 * prob_gene_from(Copies(parent)) = Transmit(Copies(parent))
                /\ 100 * prob_no_gene_from(Copies(parent))
                      = 10000 - Transmit(Copies(parent))

(* C8: with both parents assigned two copies, the gene factor of the child *)
(* is 0.01 * 0.01 = 0.0001 for zero copies and 0.99 * 0.99 = 0.9801 for    *)
(* two copies (scale 10^4: 1 and 9801).                                    *)
C8_BothParentsTwoCopies ==
    pc = "returned" =>
        \A person \in names :
            (/\ HasParents(person)
             /\ people[person].mother \in two_genes
             /\ people[person].father \in two_genes) =>
                /\ Copies(person) = 0 => gene_factor[person] = 1
                /\ Copies(person) = 2 => gene_factor[person] = 9801

C8_Witness ==
    /\ pc = "returned"
    /\ \E person \in names :
          /\ HasParents(person)
          /\ people[person].mother \in two_genes
          /\ people[person].father \in two_genes
          /\ Copies(person) = 0
          /\ gene_factor[person] = 1

(* C9: for a child with recorded parents, the gene factors for the child's *)
(* gene counts 0, 1 and 2 under the parents' assigned counts sum to 1.     *)
WithCopies(person, c) ==
    [og |-> IF c = 1 THEN one_gene \cup {person} ELSE one_gene \ {person},
     tg |-> IF c = 2 THEN two_genes \cup {person} ELSE two_genes \ {person}]

C9_ChildDistribution ==
    pc = "returned" =>
        \A person \in names : HasParents(person) =>
            /\ gene_factor[person]
                  = gene_prob(people, person, one_gene, two_genes)
            /\ gene_prob(people, person, WithCopies(person, 0).og,
                         WithCopies(person, 0).tg)
               + gene_prob(people, person, WithCopies(person, 1).og,
                           WithCopies(person, 1).tg)
               + gene_prob(people, person, WithCopies(person, 2).og,
                           WithCopies(person, 2).tg)
               = 10000

(* C7: relabelling the individuals consistently in the pedigree keys, the  *)
(* mother/father references and the three sets leaves the joint            *)
(* probability unchanged.                                                  *)
Bijections == {f \in [names -> names] : \A x, y \in names : f[x] = f[y] => x = y}

Image(f, set) == {f[x] : x \in set}

Relabel(ppl, f) ==
    [y \in names |->
        LET x == CHOOSE z \in names : f[z] = y
        IN  [mother |-> IF ppl[x].mother = None THEN None ELSE f[ppl[x].mother],
             father |-> IF ppl[x].father = None THEN None ELSE f[ppl[x].father],
             trait  |-> ppl[x].trait]]

C7_RelabelSymmetric ==
    pc = "returned" =>
        \A f \in Bijections :
            joint_probability(Relabel(people, f), Image(f, one_gene),
                              Image(f, two_genes), Image(f, have_trait)) = p

C7_Witness ==
    /\ pc = "returned"
    /\ p # Zero
    /\ \E person \in names : HasParents(person) /\ Copies(person) = 1
    /\ \E person \in names : ~HasParents(person) /\ Copies(person) = 2
    /\ have_trait # {} /\ have_trait # names

(* C5: when a mother or father field names no individual of the dataset,   *)
(* or only one parent is recorded, no probability is produced.             *)
C5_FailFast ==
    Malformed(people) => (calls = 0 /\ pc # "done")

(* C3: an individual observed with the trait has mass 0 in its trait=False *)
(* cell, one observed without it has mass 0 in its trait=True cell, and    *)
(* every trait set handed to the gene loops respects the observations.     *)
C3_EvidenceConsistent ==
    /\ \A person \in names :
          /\ people[person].trait = "True" =>
                probabilities[person].trait[FALSE].num = Zero
          /\ people[person].trait = "False" =>
                probabilities[person].trait[TRUE].num = Zero
    /\ \A ht \in visited_traits : Consistent(ht)
    /\ pc = "genes" => Consistent(have_trait)

C3_Witness ==
    /\ pc = "done"
    /\ calls > 0
    /\ trait_passes < Len(powerset(names))
    /\ \E person \in names :
          /\ people[person].trait = "True"
          /\ probabilities[person].trait[TRUE].num # Zero
    /\ \E person \in names :
          /\ people[person].trait = "False"
          /\ probabilities[person].trait[FALSE].num # Zero

(* C4: for each evidence-consistent trait set the two gene loops visit     *)
(* every assignment of gene counts to the individuals exactly once, with   *)
(* one_gene and two_genes disjoint, and each evidence-consistent trait set *)
(* is itself visited exactly once.                                         *)
C4_ExactlyOnce ==
    /\ one_gene \cap two_genes = {}
    /\ gene_calls = Cardinality(visited_genes)
    /\ trait_passes = Cardinality(visited_traits)
    /\ (pc # "genes" /\ trait_passes > 0) =>
          /\ visited_genes = [names -> 0..2]
          /\ gene_calls = Pow3(Cardinality(names))
    /\ pc = "done" =>
          /\ visited_traits = {ht \in SUBSET names : Consistent(ht)}
          /\ calls = trait_passes * Pow3(Cardinality(names))

C4_Witness ==
    /\ pc = "done"
    /\ Cardinality(names) >= 2
    /\ trait_passes >= 2
    /\ gene_calls = Pow3(Cardinality(names))
    /\ \E person \in names : people[person].trait # "None"

(* C6: with no observed trait anywhere, an individual without recorded     *)
(* parents ends with the gene distribution {0: 0.96, 1: 0.03, 2: 0.01}.    *)
C6_PriorRecovered ==
    (pc = "done" /\ \A person \in names : people[person].trait = "None") =>
        \A person \in names : ~HasParents(person) =>
            \A g \in 0..2 :
                MulSmall(probabilities[person].gene[g].num, 100)
                    = MulSmall(probabilities[person].gene[g].den, PROBS.gene[g])

(* C2: normalize leaves, for every individual, three gene values that sum  *)
(* to 1 and two trait values that sum to 1, each the accumulated value     *)
(* divided by the same positive number.                                    *)
NormalizedFrom(old, new, keys) ==
    LET d == new[CHOOSE k \in keys : TRUE].den
    IN  /\ d # Zero
        /\ \A k \in keys : new[k].den = d /\ new[k].num = old[k].num
        /\ SumNum(new, keys) = d

C2_Step ==
    (pc # "done" /\ pc' = "done") =>
        \A person \in names :
            /\ NormalizedFrom(probabilities[person].gene,
                              probabilities'[person].gene, 0..2)
            /\ NormalizedFrom(probabilities[person].trait,
                              probabilities'[person].trait, BOOLEAN)

C2_NormalizedSumsToOne == [][C2_Step]_vars

C2_Witness ==
    /\ pc = "done"
    /\ \E person \in names : HasParents(person)
    /\ \E person \in names : people[person].trait = "True"
    /\ \A person \in names :
          /\ SumNum(probabilities[person].gene, 0..2)
                = probabilities[person].gene[0].den
          /\ probabilities[person].gene[2].num # Zero

(* C10: before normalization each call of update adds p to the gene cell   *)
(* of every individual's assigned gene count and to the trait cell of its  *)
(* assigned trait value and changes no other cell; so for every individual *)
(* the gene cells and the trait cells both sum to the total of all p so    *)
(* far, and no cell ever decreases.                                        *)
C10_Step ==
    pc' # "done" =>
        \A person \in names :
            /\ \A g \in 0..2 :
                  /\ probabilities'[person].gene[g].num =
                        IF calls' # calls /\ g = gene_copies(person, one_gene', two_genes')
                        THEN Add(probabilities[person].gene[g].num, p')
                        ELSE probabilities[person].gene[g].num
                  /\ Leq(probabilities[person].gene[g].num,
                         probabilities'[person].gene[g].num)
            /\ \A t \in BOOLEAN :
                  /\ probabilities'[person].trait[t].num =
                        IF calls' # calls /\ t = (person \in have_trait')
                        THEN Add(probabilities[person].trait[t].num, p')
                        ELSE probabilities[person].trait[t].num
                  /\ Leq(probabilities[person].trait[t].num,
                         probabilities'[person].trait[t].num)
            /\ SumNum(probabilities'[person].gene, 0..2) = total'
            /\ SumNum(probabilities'[person].trait, BOOLEAN) = total'

C10_Accumulation == [][C10_Step]_vars

C10_Witness ==
    /\ pc = "genes"
    /\ calls >= 2
    /\ p # Zero
    /\ total # p
    /\ \A person \in names :
          SumNum(probabilities[person].gene, 0..2) = total

====
